---------------------------- MODULE Spec2Model ----------------------------
(***************************************************************************)
(* EditableStreamOverBuffer: an in-memory editable byte stream             *)
(* (sdk_file/msip_file/file/editable_stream_over_buffer.cpp).              *)
(*                                                                         *)
(* The object's fields are mBuffer (std::vector<uint8_t>), mSize and       *)
(* mPosition (int64_t).  Every public method is one action; the action     *)
(* records the call, what it returned or threw, the bytes it copied out    *)
(* and the fields as they were when the call was made.  Spec is the stream *)
(* under arbitrary calls; RoundTripSpec and InverseSpec let arbitrary     *)
(* calls be followed by one recorded sequence Insert, Seek, Read (resp.    *)
(* Delete); AccountSpec adds up the counts of the editing calls; DrainSpec *)
(* reads or deletes until 0 is returned; RaceSpec interleaves the          *)
(* statements of two unsynchronized calls.                                 *)
(***************************************************************************)
EXTENDS Integers, Sequences, FiniteSets

VARIABLES
    mBuffer,    \* std::vector<uint8_t> mBuffer
    mSize,      \* int64_t mSize
    mPosition,  \* int64_t mPosition
    call,       \* the last call made on the stream: method name and arguments
    result,     \* what that call returned, or the exception it threw
    out,        \* the bytes Read copied into the caller's buffer (else <<>>)
    pre,        \* the fields (buf, size, pos) when that call was made
    log,        \* the calls of a recorded call sequence, oldest first
    tally,      \* initial size, counts returned and bytes removed so far
    thread,     \* per caller thread: the statement it is at and its locals
    race        \* whether calls overlapped, and what that has caused

vars == <<mBuffer, mSize, mPosition, call, result, out, pre, log, tally,
          thread, race>>

---------------------------------------------------------------------------
(* Bounds of the model. *)

\* std::numeric_limits<int64_t>::max(), scaled down so that the overflow
\* branch of Insert is reachable with buffers TLC can enumerate.
MaxInt64 == 5

\* Longest byte sequence handed to the constructor.
MaxInitLen == 2

\* Largest ordinary length argument (bufferLength, numBytes, replaceLength).
MaxArg == 2

\* Largest total of returned insert counts followed by the size accounting.
MaxTally == 3

\* uint8_t values stored in the buffer: two distinguishable bytes.
Byte == {0, 1}

\* Byte sequences of exactly n bytes.
BytesOfLen(n) == [1..n -> Byte]

\* Length arguments: negative, zero, ordinary, and the largest int64_t.
LenArgs == (-1..MaxArg) \cup {MaxInt64}

\* (pointer, bufferLength) pairs of Write/Insert/Update: the pointer is valid
\* for bufferLength bytes when bufferLength > 0 and is not read otherwise.
BufArgs ==
    {<<(<<>>), n>> : n \in {-1, 0}}
      \cup UNION {{<<B, n>> : B \in BytesOfLen(n)} : n \in 1..MaxArg}

\* Seek targets: a negative position and every non-negative int64_t.
SeekArgs == -1..MaxInt64

---------------------------------------------------------------------------
(* Values. *)

Min(a, b) == IF a <= b THEN a ELSE b

\* The three fields as one value.
Fields(b, s, p) == [buf |-> b, size |-> s, pos |-> p]

State == Fields(mBuffer, mSize, mPosition)

\* Outcomes of a call.
ReturnInt(v)  == [kind |-> "int64_t", value |-> v, flag |-> FALSE, what |-> ""]
ReturnBool(b) == [kind |-> "bool", value |-> 0, flag |-> b, what |-> ""]
ReturnVoid    == [kind |-> "void", value |-> 0, flag |-> FALSE, what |-> ""]
Throw(msg)    == [kind |-> "runtime_error", value |-> 0, flag |-> FALSE, what |-> msg]

\* What a method leaves behind: the fields, the outcome, the bytes copied out.
Outcome(b, s, p, r, o) == [buf |-> b, size |-> s, pos |-> p, res |-> r, out |-> o]

Same(s, r) == Outcome(s.buf, s.size, s.pos, r, <<>>)

---------------------------------------------------------------------------
(* std::vector operations used by the stream. *)

\* Variant of VecInsert: the new bytes are appended instead of spliced in.
VecInsert_AtEnd(v, i, B, n) == v \o SubSeq(B, 1, n)

\* v.insert(v.begin() + i, B, B + n)
VecInsert(v, i, B, n) ==
    SubSeq(v, 1, i) \o SubSeq(B, 1, n) \o SubSeq(v, i + 1, Len(v))

\* Variant of VecErase: the erased range starts one element too late.
VecErase_OffByOne(v, first, last) ==
    SubSeq(v, 1, first + 1) \o SubSeq(v, last + 2, Len(v))

\* Variant of VecErase: the elements are dropped from the end of v.
VecErase_Tail(v, first, last) == SubSeq(v, 1, Len(v) - (last - first))

\* v.erase(v.begin() + first, v.begin() + last)
VecErase(v, first, last) ==
    SubSeq(v, 1, first) \o SubSeq(v, last + 1, Len(v))

---------------------------------------------------------------------------
(* The methods, as functions from the fields and the arguments. *)

\* Variant of Construct: mSize is read from the argument after its content
\* has been moved into mBuffer.
Construct_SizeAfterMove(memory) == Fields(memory, 0, 0)

Construct(memory) == Fields(memory, Len(memory), 0)

\* The caller's vector after the constructor returned: mBuffer(buffer) names
\* the rvalue-reference parameter, an lvalue, so the copy constructor of
\* the vector runs and the source keeps its elements.
SourceAfterConstruct(memory) == memory

\* Variant of ReadOp: mPosition is not advanced.
ReadOp_NoAdvance(s, bufferLength) ==
    IF bufferLength <= 0 THEN Same(s, ReturnInt(0))
    ELSE LET bytesRead == IF bufferLength <= s.size - s.pos
                          THEN bufferLength ELSE s.size - s.pos
         IN IF bytesRead # 0
            THEN Outcome(s.buf, s.size, s.pos, ReturnInt(bytesRead),
                         SubSeq(s.buf, s.pos + 1, s.pos + bytesRead))
            ELSE Same(s, ReturnInt(bytesRead))

\* Variant of ReadOp: the bytes are copied from the start of mBuffer.
ReadOp_FromStart(s, bufferLength) ==
    IF bufferLength <= 0 THEN Same(s, ReturnInt(0))
    ELSE LET bytesRead == IF bufferLength <= s.size - s.pos
                          THEN bufferLength ELSE s.size - s.pos
         IN IF bytesRead # 0
            THEN Outcome(s.buf, s.size, s.pos + bytesRead, ReturnInt(bytesRead),
                         SubSeq(s.buf, 1, bytesRead))
            ELSE Same(s, ReturnInt(bytesRead))

\* Variant of ReadOp: a non-positive bufferLength is not turned away.
ReadOp_NoLengthCheck(s, bufferLength) ==
    LET bytesRead == IF bufferLength <= s.size - s.pos
                     THEN bufferLength ELSE s.size - s.pos
    IN IF bytesRead # 0
       THEN Outcome(s.buf, s.size, s.pos + bytesRead, ReturnInt(bytesRead),
                    SubSeq(s.buf, s.pos + 1, s.pos + bytesRead))
       ELSE Same(s, ReturnInt(bytesRead))

\* Variant of ReadOp: a request reaching the end stops one byte short of it.
ReadOp_StopsShort(s, bufferLength) ==
    IF bufferLength <= 0 THEN Same(s, ReturnInt(0))
    ELSE LET bytesRead == IF bufferLength < s.size - s.pos
                          THEN bufferLength
                          ELSE IF s.size - s.pos > 0 THEN s.size - s.pos - 1
                          ELSE 0
         IN IF bytesRead # 0
            THEN Outcome(s.buf, s.size, s.pos + bytesRead, ReturnInt(bytesRead),
                         SubSeq(s.buf, s.pos + 1, s.pos + bytesRead))
            ELSE Same(s, ReturnInt(bytesRead))

\* Variant of ReadOp: the bytes read are taken out of the buffer.
ReadOp_Consuming(s, bufferLength) ==
    IF bufferLength <= 0 THEN Same(s, ReturnInt(0))
    ELSE LET bytesRead == IF bufferLength <= s.size - s.pos
                          THEN bufferLength ELSE s.size - s.pos
         IN IF bytesRead # 0
            THEN Outcome(SubSeq(s.buf, 1, s.pos)
                             \o SubSeq(s.buf, s.pos + bytesRead + 1, Len(s.buf)),
                         s.size - bytesRead, s.pos, ReturnInt(bytesRead),
                         SubSeq(s.buf, s.pos + 1, s.pos + bytesRead))
            ELSE Same(s, ReturnInt(bytesRead))

ReadOp(s, bufferLength) ==
    IF bufferLength <= 0 THEN Same(s, ReturnInt(0))
    ELSE LET bytesRead == IF bufferLength <= s.size - s.pos
                          THEN bufferLength ELSE s.size - s.pos
         IN IF bytesRead # 0
            THEN Outcome(s.buf, s.size, s.pos + bytesRead, ReturnInt(bytesRead),
                         SubSeq(s.buf, s.pos + 1, s.pos + bytesRead))
            ELSE Same(s, ReturnInt(bytesRead))

\* Variant of InsertOp: mPosition is not advanced.
InsertOp_NoAdvance(s, buffer, bufferLength) ==
    IF bufferLength <= 0 THEN Same(s, ReturnInt(0))
    ELSE IF MaxInt64 - s.size < bufferLength
    THEN Same(s, Throw("Inserting buffer would exceed maximum stream length."))
    ELSE Outcome(SubSeq(s.buf, 1, s.pos) \o SubSeq(buffer, 1, bufferLength)
                     \o SubSeq(s.buf, s.pos + 1, Len(s.buf)),
                 s.size + bufferLength, s.pos,
                 ReturnInt(bufferLength), <<>>)

\* Variant of InsertOp: the overflow test uses <= where the code uses <.
InsertOp_OverflowOffByOne(s, buffer, bufferLength) ==
    IF bufferLength <= 0 THEN Same(s, ReturnInt(0))
    ELSE IF MaxInt64 - s.size <= bufferLength
    THEN Same(s, Throw("Inserting buffer would exceed maximum stream length."))
    ELSE Outcome(SubSeq(s.buf, 1, s.pos) \o SubSeq(buffer, 1, bufferLength)
                     \o SubSeq(s.buf, s.pos + 1, Len(s.buf)),
                 s.size + bufferLength, s.pos + bufferLength,
                 ReturnInt(bufferLength), <<>>)

\* Variant of InsertOp: the new size is returned instead of bufferLength.
InsertOp_ReturnsNewSize(s, buffer, bufferLength) ==
    IF bufferLength <= 0 THEN Same(s, ReturnInt(0))
    ELSE IF MaxInt64 - s.size < bufferLength
    THEN Same(s, Throw("Inserting buffer would exceed maximum stream length."))
    ELSE Outcome(VecInsert(s.buf, s.pos, buffer, bufferLength),
                 s.size + bufferLength, s.pos + bufferLength,
                 ReturnInt(s.size + bufferLength), <<>>)

InsertOp(s, buffer, bufferLength) ==
    IF bufferLength <= 0 THEN Same(s, ReturnInt(0))
    ELSE IF MaxInt64 - s.size < bufferLength
    THEN Same(s, Throw("Inserting buffer would exceed maximum stream length."))
    ELSE Outcome(VecInsert(s.buf, s.pos, buffer, bufferLength),
                 s.size + bufferLength, s.pos + bufferLength,
                 ReturnInt(bufferLength), <<>>)

\* Variant of DeleteOp: mSize is not reduced.
DeleteOp_SizeNotReduced(s, numBytes) ==
    IF numBytes <= 0 THEN Same(s, ReturnInt(0))
    ELSE LET bytesDeleted == IF numBytes <= s.size - s.pos
                             THEN numBytes ELSE s.size - s.pos
         IN IF bytesDeleted # 0
            THEN Outcome(SubSeq(s.buf, 1, s.pos)
                             \o SubSeq(s.buf, s.pos + bytesDeleted + 1, Len(s.buf)),
                         s.size, s.pos, ReturnInt(bytesDeleted), <<>>)
            ELSE Same(s, ReturnInt(bytesDeleted))

\* Variant of DeleteOp: the cursor is moved past the deleted bytes, as Read
\* moves it.
DeleteOp_MovesPosition(s, numBytes) ==
    IF numBytes <= 0 THEN Same(s, ReturnInt(0))
    ELSE LET bytesDeleted == IF numBytes <= s.size - s.pos
                             THEN numBytes ELSE s.size - s.pos
         IN IF bytesDeleted # 0
            THEN Outcome(SubSeq(s.buf, 1, s.pos)
                             \o SubSeq(s.buf, s.pos + bytesDeleted + 1, Len(s.buf)),
                         s.size - bytesDeleted,
                         Min(s.pos + bytesDeleted, s.size - bytesDeleted),
                         ReturnInt(bytesDeleted), <<>>)
            ELSE Same(s, ReturnInt(bytesDeleted))

\* Variant of DeleteOp: asking for more bytes than remain is an error.
DeleteOp_ThrowsPastEnd(s, numBytes) ==
    IF numBytes <= 0 THEN Same(s, ReturnInt(0))
    ELSE IF numBytes > s.size - s.pos
    THEN Same(s, Throw("Position must not be larger than size."))
    ELSE Outcome(SubSeq(s.buf, 1, s.pos)
                     \o SubSeq(s.buf, s.pos + numBytes + 1, Len(s.buf)),
                 s.size - numBytes, s.pos, ReturnInt(numBytes), <<>>)

DeleteOp(s, numBytes) ==
    IF numBytes <= 0 THEN Same(s, ReturnInt(0))
    ELSE LET bytesDeleted == IF numBytes <= s.size - s.pos
                             THEN numBytes ELSE s.size - s.pos
         IN IF bytesDeleted # 0
            THEN Outcome(VecErase(s.buf, s.pos, s.pos + bytesDeleted),
                         s.size - bytesDeleted, s.pos, ReturnInt(bytesDeleted), <<>>)
            ELSE Same(s, ReturnInt(bytesDeleted))

\* Variant of UpdateOp: the two steps are swapped, Insert first.
UpdateOp_InsertThenDelete(s, buffer, bufferLength, replaceLength) ==
    LET i == InsertOp(s, buffer, bufferLength)
        d == DeleteOp(Fields(i.buf, i.size, i.pos), replaceLength)
    IN Outcome(d.buf, d.size, d.pos, i.res, <<>>)

\* Variant of UpdateOp: nothing is deleted, the bytes are only inserted.
UpdateOp_NoDelete(s, buffer, bufferLength, replaceLength) ==
    InsertOp(s, buffer, bufferLength)

\* Variant of UpdateOp: with nothing to insert the call returns at once.
UpdateOp_NothingToInsert(s, buffer, bufferLength, replaceLength) ==
    IF bufferLength <= 0 THEN Same(s, ReturnInt(0))
    ELSE LET d == DeleteOp(s, replaceLength)
         IN InsertOp(Fields(d.buf, d.size, d.pos), buffer, bufferLength)

UpdateOp(s, buffer, bufferLength, replaceLength) ==
    LET d == DeleteOp(s, replaceLength)
    IN InsertOp(Fields(d.buf, d.size, d.pos), buffer, bufferLength)

\* Variant of WriteOp: the bytes are inserted, nothing is overwritten.
WriteOp_AsInsert(s, buffer, bufferLength) == InsertOp(s, buffer, bufferLength)

\* Variant of WriteOp: the write stops at the end of the content and
\* returns the truncated count.
WriteOp_Truncating(s, buffer, bufferLength) ==
    LET n == IF bufferLength <= s.size - s.pos
             THEN bufferLength ELSE s.size - s.pos
    IN UpdateOp(s, buffer, n, n)

WriteOp(s, buffer, bufferLength) == UpdateOp(s, buffer, bufferLength, bufferLength)

\* Variant of FlushOp: the flush reports failure.
FlushOp_ReportsFailure(s) == Same(s, ReturnBool(FALSE))

FlushOp(s) == Same(s, ReturnBool(TRUE))

\* Variant of SeekOp: the upper bound is not checked.
SeekOp_NoUpperCheck(s, position) ==
    IF position < 0 THEN Same(s, Throw("Position must not be less than zero."))
    ELSE Outcome(s.buf, s.size, position, ReturnVoid, <<>>)

\* Variant of SeekOp: the upper bound is exclusive.
SeekOp_ExclusiveUpper(s, position) ==
    IF position < 0 THEN Same(s, Throw("Position must not be less than zero."))
    ELSE IF position >= s.size
    THEN Same(s, Throw("Position must not be larger than size."))
    ELSE Outcome(s.buf, s.size, position, ReturnVoid, <<>>)

\* Variant of SeekOp: the lower bound is not checked.
SeekOp_NoLowerCheck(s, position) ==
    IF position > s.size
    THEN Same(s, Throw("Position must not be larger than size."))
    ELSE Outcome(s.buf, s.size, position, ReturnVoid, <<>>)

\* Variant of SeekOp: mPosition is assigned before the upper bound is tested.
SeekOp_AssignsBeforeCheck(s, position) ==
    IF position < 0 THEN Same(s, Throw("Position must not be less than zero."))
    ELSE IF position > s.size
    THEN Outcome(s.buf, s.size, position,
                 Throw("Position must not be larger than size."), <<>>)
    ELSE Outcome(s.buf, s.size, position, ReturnVoid, <<>>)

SeekOp(s, position) ==
    IF position < 0 THEN Same(s, Throw("Position must not be less than zero."))
    ELSE IF position > s.size
    THEN Same(s, Throw("Position must not be larger than size."))
    ELSE Outcome(s.buf, s.size, position, ReturnVoid, <<>>)

CanReadOp(s) == Same(s, ReturnBool(TRUE))

CanWriteOp(s) == Same(s, ReturnBool(TRUE))

PositionOp(s) == Same(s, ReturnInt(s.pos))

SizeOp(s) == Same(s, ReturnInt(s.size))

\* Variant of SetSizeOp: the setter returns without doing anything.
SetSizeOp_Silent(s, value) == Same(s, ReturnVoid)

SetSizeOp(s, value) == Same(s, Throw("Not Implemented"))

---------------------------------------------------------------------------
(* The state machine. *)

\* The threads that may call into one stream object.
Threads == {1, 2}

\* A thread that is not inside any call.
Idle == [pc |-> "idle", arg |-> 0, local |-> 0]

\* The stream constructed from the vector memory; counted is the size from
\* which tally starts counting.
Constructed(memory, counted) ==
    LET s == Construct(memory)
    IN /\ mBuffer = s.buf
       /\ mSize = s.size
       /\ mPosition = s.pos
       /\ call = [op |-> "EditableStreamOverBuffer", memory |-> memory,
                   source |-> SourceAfterConstruct(memory)]
       /\ result = ReturnVoid
       /\ out = <<>>
       /\ pre = s
       /\ log = <<>>
       /\ tally = [initial |-> counted, inserted |-> 0, removed |-> 0,
                   failed |-> FALSE]
       /\ thread = [t \in Threads |-> Idle]
       /\ race = [overlapped |-> FALSE, beyond |-> FALSE]

\* The vectors a stream is constructed from.
Memories == UNION {BytesOfLen(n) : n \in 0..MaxInitLen}

Init == \E memory \in Memories : Constructed(memory, 0)

\* One call c whose outcome is o: its effect on the stream.
Call(c, o) ==
    /\ mBuffer' = o.buf
    /\ mSize' = o.size
    /\ mPosition' = o.pos
    /\ call' = c
    /\ result' = o.res
    /\ out' = o.out
    /\ pre' = State

\* A call outside any recorded sequence.
Apply(c, o) == Call(c, o) /\ UNCHANGED <<log, tally, thread, race>>

\* A call of a recorded sequence: it is appended to log.
Recorded(c, o) ==
    /\ Call(c, o)
    /\ log' = Append(log, [call |-> c, result |-> o.res, out |-> o.out,
                           pre |-> State])
    /\ UNCHANGED <<tally, thread, race>>

Read ==
    \E n \in LenArgs :
        Apply([op |-> "Read", bufferLength |-> n], ReadOp(State, n))

Write ==
    \E a \in BufArgs :
        Apply([op |-> "Write", buffer |-> a[1], bufferLength |-> a[2]],
              WriteOp(State, a[1], a[2]))

Insert ==
    \E a \in BufArgs :
        Apply([op |-> "Insert", buffer |-> a[1], bufferLength |-> a[2]],
              InsertOp(State, a[1], a[2]))

Update ==
    \E a \in BufArgs, r \in LenArgs :
        Apply([op |-> "Update", buffer |-> a[1], bufferLength |-> a[2],
               replaceLength |-> r],
              UpdateOp(State, a[1], a[2], r))

Delete ==
    \E n \in LenArgs :
        Apply([op |-> "Delete", numBytes |-> n], DeleteOp(State, n))

Flush == Apply([op |-> "Flush"], FlushOp(State))

Seek ==
    \E q \in SeekArgs :
        Apply([op |-> "Seek", position |-> q], SeekOp(State, q))

CanRead == Apply([op |-> "CanRead"], CanReadOp(State))

CanWrite == Apply([op |-> "CanWrite"], CanWriteOp(State))

Position == Apply([op |-> "Position"], PositionOp(State))

Size == Apply([op |-> "Size"], SizeOp(State))

SetSize ==
    \E v \in LenArgs :
        Apply([op |-> "SetSize", value |-> v], SetSizeOp(State, v))

Next ==
    \/ Read
    \/ Write
    \/ Insert
    \/ Update
    \/ Delete
    \/ Flush
    \/ Seek
    \/ CanRead
    \/ CanWrite
    \/ Position
    \/ Size
    \/ SetSize

Spec == Init /\ [][Next]_vars

---------------------------------------------------------------------------
(* Size accounting: the editing calls and Seek, with the counts the calls
   returned and the bytes their delete steps removed added up in tally.
   The bytes inserted are zeros, the sizes being what is followed. *)

ZeroBufArgs ==
    {<<(<<>>), n>> : n \in {-1, 0}}
        \cup {<<[i \in 1..n |-> 0], n>> : n \in 1..MaxArg}

\* The count an editing call returned; a call that threw returned none.
Inserted(c, o) ==
    IF c.op \in {"Insert", "Update", "Write"} /\ o.res.kind = "int64_t"
    THEN o.res.value ELSE 0

\* A call c with outcome o whose Delete, or delete step, removed `removed`
\* bytes.
Tallied(c, o, removed) ==
    /\ tally.inserted + Inserted(c, o) <= MaxTally
    /\ Call(c, o)
    /\ tally' = [initial |-> tally.initial,
                 inserted |-> tally.inserted + Inserted(c, o),
                 removed |-> tally.removed + removed,
                 failed |-> tally.failed \/ o.res.kind = "runtime_error"]
    /\ UNCHANGED <<log, thread, race>>

TalliedInsert ==
    \E a \in ZeroBufArgs :
        Tallied([op |-> "Insert", buffer |-> a[1], bufferLength |-> a[2]],
                InsertOp(State, a[1], a[2]), 0)

TalliedDelete ==
    \E n \in LenArgs :
        LET o == DeleteOp(State, n)
        IN Tallied([op |-> "Delete", numBytes |-> n], o, o.res.value)

TalliedUpdate ==
    \E a \in ZeroBufArgs, r \in LenArgs :
        Tallied([op |-> "Update", buffer |-> a[1], bufferLength |-> a[2],
                 replaceLength |-> r],
                UpdateOp(State, a[1], a[2], r),
                DeleteOp(State, r).res.value)

TalliedWrite ==
    \E a \in ZeroBufArgs :
        Tallied([op |-> "Write", buffer |-> a[1], bufferLength |-> a[2]],
                WriteOp(State, a[1], a[2]),
                DeleteOp(State, a[2]).res.value)

TalliedSeek ==
    \E q \in SeekArgs :
        Tallied([op |-> "Seek", position |-> q], SeekOp(State, q), 0)

AccountNext ==
    \/ TalliedInsert
    \/ TalliedDelete
    \/ TalliedUpdate
    \/ TalliedWrite
    \/ TalliedSeek

\* Counting starts at construction, from the size of the vector supplied.
AccountInit == \E memory \in Memories : Constructed(memory, Len(memory))

AccountSpec == AccountInit /\ [][AccountNext]_vars

---------------------------------------------------------------------------
(* A recorded call sequence: after any calls, an Insert, then a Seek, then
   a Read, each with any arguments, each kept in log. *)

RecordedInsert ==
    /\ Len(log) = 0
    /\ \E a \in BufArgs :
           Recorded([op |-> "Insert", buffer |-> a[1], bufferLength |-> a[2]],
                    InsertOp(State, a[1], a[2]))

RecordedSeek ==
    /\ Len(log) = 1
    /\ \E q \in SeekArgs :
           Recorded([op |-> "Seek", position |-> q], SeekOp(State, q))

RecordedRead ==
    /\ Len(log) = 2
    /\ \E n \in LenArgs :
           Recorded([op |-> "Read", bufferLength |-> n], ReadOp(State, n))

RoundTripNext ==
    \/ (Len(log) = 0 /\ Next)
    \/ RecordedInsert
    \/ RecordedSeek
    \/ RecordedRead

RoundTripSpec == Init /\ [][RoundTripNext]_vars

---------------------------------------------------------------------------
(* A second recorded call sequence: after any calls, an Insert, then a
   Seek, then a Delete, each with any arguments, each kept in log. *)

RecordedDelete ==
    /\ Len(log) = 2
    /\ \E n \in LenArgs :
           Recorded([op |-> "Delete", numBytes |-> n], DeleteOp(State, n))

InverseNext ==
    \/ (Len(log) = 0 /\ Next)
    \/ RecordedInsert
    \/ RecordedSeek
    \/ RecordedDelete

InverseSpec == Init /\ [][InverseNext]_vars

---------------------------------------------------------------------------
(* Draining. Insert and Seek calls bring the stream to any content and
   position; then either Seek(0) followed by Read calls of any positive
   length, or Delete calls of any positive count, are recorded in log; the
   caller goes on until a call returns 0 and then stops. *)

PositiveLens == {n \in LenArgs : n > 0}

\* The recorded call before this one did not return 0.
MoreToDrain == log[Len(log)].call.op = "Seek" \/ log[Len(log)].result.value # 0

DrainSeek ==
    /\ Len(log) = 0
    /\ Recorded([op |-> "Seek", position |-> 0], SeekOp(State, 0))

DrainRead ==
    /\ Len(log) > 0
    /\ log[1].call.op = "Seek"
    /\ MoreToDrain
    /\ \E n \in PositiveLens :
           Recorded([op |-> "Read", bufferLength |-> n], ReadOp(State, n))

DrainDelete ==
    /\ Len(log) > 0 => (log[1].call.op = "Delete" /\ MoreToDrain)
    /\ \E n \in PositiveLens :
           Recorded([op |-> "Delete", numBytes |-> n], DeleteOp(State, n))

DrainNext ==
    \/ (Len(log) = 0 /\ Insert)
    \/ (Len(log) = 0 /\ Seek)
    \/ DrainSeek
    \/ DrainRead
    \/ DrainDelete

\* A caller that has begun to drain makes its next call.
DrainStep == Len(log) > 0 /\ (DrainRead \/ DrainDelete)

DrainSpec == Init /\ [][DrainNext]_vars /\ WF_vars(DrainStep)

---------------------------------------------------------------------------
(* Unsynchronized callers. The class has no mutex and no atomic member, so
   two threads calling into one stream run the statements of Read, Delete
   and Seek in any interleaving. Each thread makes one call on a freshly
   constructed stream; a thread is at the statement named by its pc, with
   the argument and the local (bytesRead, bytesDeleted) of its call. An
   access outside the vector is undefined: the process may stop there, or
   go on with whatever the access gave. *)

\* Variant of Clamp: the count asked for is used as it is.
Clamp_None(n, size, pos) == n

\* (n <= mSize - mPosition) ? n : mSize - mPosition
Clamp(n, size, pos) == IF n <= size - pos THEN n ELSE size - pos

At(pc, arg, local) == [pc |-> pc, arg |-> arg, local |-> local]

MidCall(u) == thread[u].pc \notin {"idle", "returned", "crashed"}

\* Thread t runs one statement: it overlaps any call another thread is in.
Step(t, next, beyond) ==
    /\ thread' = [thread EXCEPT ![t] = next]
    /\ race' = [overlapped |-> race.overlapped
                                \/ \E u \in Threads \ {t} : MidCall(u),
                beyond |-> race.beyond \/ beyond]
    /\ UNCHANGED <<call, result, pre, log, tally>>

\* The process stops at an undefined access made by thread t.
Crash(t) ==
    /\ thread' = [u \in Threads |-> At("crashed", thread[u].arg, thread[u].local)]
    /\ race' = [overlapped |-> race.overlapped
                                \/ \E u \in Threads \ {t} : MidCall(u),
                beyond |-> TRUE]
    /\ UNCHANGED <<mBuffer, mSize, mPosition, out, call, result, pre, log, tally>>

\* Read up to the test of bytesRead.
ReadBegin(t) ==
    /\ thread[t].pc = "idle"
    /\ \E n \in LenArgs :
           LET bytesRead == Clamp(n, mSize, mPosition)
           IN Step(t, IF n <= 0 \/ bytesRead = 0
                      THEN At("returned", n, 0)
                      ELSE At("memcpy", n, bytesRead), FALSE)
    /\ UNCHANGED <<mBuffer, mSize, mPosition, out>>

\* MEMCPY(buffer, bufferLength, &mBuffer[mPosition], bytesRead)
ReadCopy(t) ==
    /\ thread[t].pc = "memcpy"
    /\ LET bytesRead == thread[t].local
           inside == 0 <= mPosition /\ mPosition + bytesRead <= Len(mBuffer)
       IN \/ /\ inside
             /\ out' = SubSeq(mBuffer, mPosition + 1, mPosition + bytesRead)
             /\ Step(t, At("advance", thread[t].arg, bytesRead), FALSE)
             /\ UNCHANGED <<mBuffer, mSize, mPosition>>
          \/ /\ ~inside
             /\ out' \in BytesOfLen(bytesRead)
             /\ Step(t, At("advance", thread[t].arg, bytesRead), TRUE)
             /\ UNCHANGED <<mBuffer, mSize, mPosition>>
          \/ /\ ~inside
             /\ Crash(t)

\* mPosition += bytesRead; return bytesRead
ReadAdvance(t) ==
    /\ thread[t].pc = "advance"
    /\ mPosition' = mPosition + thread[t].local
    /\ Step(t, At("returned", thread[t].arg, thread[t].local), FALSE)
    /\ UNCHANGED <<mBuffer, mSize, out>>

\* Delete up to the test of bytesDeleted.
DeleteBegin(t) ==
    /\ thread[t].pc = "idle"
    /\ \E n \in LenArgs :
           LET bytesDeleted == Clamp(n, mSize, mPosition)
           IN Step(t, IF n <= 0 \/ bytesDeleted = 0
                      THEN At("returned", n, 0)
                      ELSE At("erase", n, bytesDeleted), FALSE)
    /\ UNCHANGED <<mBuffer, mSize, mPosition, out>>

\* mBuffer.erase(begin + mPosition, begin + mPosition + bytesDeleted)
DeleteErase(t) ==
    /\ thread[t].pc = "erase"
    /\ LET bytesDeleted == thread[t].local
           inside == 0 <= mPosition /\ mPosition + bytesDeleted <= Len(mBuffer)
       IN \/ /\ inside
             /\ mBuffer' = VecErase(mBuffer, mPosition, mPosition + bytesDeleted)
             /\ Step(t, At("shrink", thread[t].arg, bytesDeleted), FALSE)
             /\ UNCHANGED <<mSize, mPosition, out>>
          \/ /\ ~inside
             /\ \E k \in 0..Len(mBuffer) : mBuffer' = SubSeq(mBuffer, 1, k)
             /\ Step(t, At("shrink", thread[t].arg, bytesDeleted), TRUE)
             /\ UNCHANGED <<mSize, mPosition, out>>
          \/ /\ ~inside
             /\ Crash(t)

\* mSize -= bytesDeleted; return bytesDeleted
DeleteShrink(t) ==
    /\ thread[t].pc = "shrink"
    /\ mSize' = mSize - thread[t].local
    /\ Step(t, At("returned", thread[t].arg, thread[t].local), FALSE)
    /\ UNCHANGED <<mBuffer, mPosition, out>>

\* The two tests of Seek, each throwing when it fails.
SeekCheck(t) ==
    /\ thread[t].pc = "idle"
    /\ \E q \in SeekArgs :
           Step(t, IF q < 0 \/ q > mSize
                   THEN At("returned", q, 0)
                   ELSE At("assign", q, 0), FALSE)
    /\ UNCHANGED <<mBuffer, mSize, mPosition, out>>

\* mPosition = position
SeekAssign(t) ==
    /\ thread[t].pc = "assign"
    /\ mPosition' = thread[t].arg
    /\ Step(t, At("returned", thread[t].arg, 0), FALSE)
    /\ UNCHANGED <<mBuffer, mSize, out>>

RaceNext ==
    \E t \in Threads :
        \/ ReadBegin(t)
        \/ ReadCopy(t)
        \/ ReadAdvance(t)
        \/ DeleteBegin(t)
        \/ DeleteErase(t)
        \/ DeleteShrink(t)
        \/ SeekCheck(t)
        \/ SeekAssign(t)

RaceSpec == Init /\ [][RaceNext]_vars

---------------------------------------------------------------------------
(* Shorthands for the properties. *)

\* The last call returned normally / threw.
Returned == result.kind # "runtime_error"
Threw == result.kind = "runtime_error"

\* The fields are exactly those the last call found.
Untouched == State = pre

\* Bytes remaining after the cursor when the last call was made.
Remaining == pre.size - pre.pos

---------------------------------------------------------------------------
(* C1: in every state reachable from construction by any sequence of calls,
   failing calls included, the cursor satisfies 0 <= position <= size. *)
C1_PositionWithinSize == 0 <= mPosition /\ mPosition <= mSize

\* A Delete that removed the whole tail behind a cursor that is not at 0:
\* the cursor now sits exactly on the (shrunk) size.
C1_Witness ==
    /\ call.op = "Delete"
    /\ result.value > 0
    /\ mPosition > 0
    /\ mPosition = mSize

(* C2: in every reachable state the logical size equals the number of bytes
   held in the internal buffer, mSize = length of mBuffer. *)
C2_SizeIsBufferLength == mSize = Len(mBuffer)

\* An Update that deleted and inserted different amounts.
C2_Witness ==
    /\ call.op = "Update"
    /\ Returned
    /\ call.bufferLength > 0
    /\ call.replaceLength > 0
    /\ mSize # pre.size
    /\ mSize # pre.size + call.bufferLength

(* C3: Update(B, n, r) behaves as Delete(r) immediately followed by
   Insert(B, n).  Two parts, both over every n and r the model draws:
   (a) an Update call leaves the buffer, size, position and outcome that
       Delete(r) and then Insert(B, n) leave when applied to the fields the
       Update found;
   (b) whenever a Delete(r) call is immediately followed by an Insert(B, n)
       call, the second call leaves the buffer, size, position and outcome
       that a single Update(B, n, r) leaves on the fields the Delete found. *)
C3_UpdateIsDeleteThenInsert ==
    /\ [](call.op = "Update" =>
             LET d == DeleteOp(pre, call.replaceLength)
                 i == InsertOp(Fields(d.buf, d.size, d.pos),
                               call.buffer, call.bufferLength)
             IN <<State, result>> = <<Fields(i.buf, i.size, i.pos), i.res>>)
    /\ [][(call.op = "Delete" /\ call'.op = "Insert") =>
             LET u == UpdateOp(pre, call'.buffer, call'.bufferLength,
                               call.numBytes)
             IN <<mBuffer', mSize', mPosition', result'>>
                    = <<u.buf, u.size, u.pos, u.res>>
       ]_vars

\* An Update with n # r whose r exceeds what was left after the cursor and
\* that removed something.
C3_Witness ==
    /\ call.op = "Update"
    /\ call.bufferLength > 0
    /\ call.replaceLength # call.bufferLength
    /\ call.replaceLength > Remaining
    /\ Remaining > 0
    /\ Returned

(* C4: Insert(B, n) with n > 0 at position p on a stream of size s, with
   s + n representable, returns n and makes the size s + n and the
   position p + n. *)
C4_InsertGrowsAndAdvances ==
    (/\ call.op = "Insert"
     /\ call.bufferLength > 0
     /\ pre.size + call.bufferLength <= MaxInt64)
    => /\ result = ReturnInt(call.bufferLength)
       /\ mSize = pre.size + call.bufferLength
       /\ mPosition = pre.pos + call.bufferLength

\* An Insert in the middle of the content.
C4_Witness ==
    /\ call.op = "Insert"
    /\ call.bufferLength > 0
    /\ Returned
    /\ 0 < pre.pos
    /\ pre.pos < pre.size

(* C5: a successful Insert(B, n) with n > 0 at position p splices: the new
   buffer is old[0..p), then the n bytes of B, then old[p..size); bytes
   before p are unchanged, bytes at and after p keep value and order,
   shifted forward by n. *)
C5_InsertSplices ==
    (/\ call.op = "Insert"
     /\ call.bufferLength > 0
     /\ Returned)
    => /\ Len(mBuffer) = Len(pre.buf) + call.bufferLength
       /\ \A i \in 1..pre.pos : mBuffer[i] = pre.buf[i]
       /\ \A i \in 1..call.bufferLength :
              mBuffer[pre.pos + i] = call.buffer[i]
       /\ \A i \in (pre.pos + 1)..Len(pre.buf) :
              mBuffer[i + call.bufferLength] = pre.buf[i]

\* Two different bytes spliced between two bytes that differ from their new
\* neighbours.
C5_Witness ==
    /\ call.op = "Insert"
    /\ call.bufferLength = 2
    /\ Returned
    /\ call.buffer[1] # call.buffer[2]
    /\ 0 < pre.pos
    /\ pre.pos < pre.size
    /\ pre.buf[pre.pos] # call.buffer[1]
    /\ pre.buf[pre.pos + 1] # call.buffer[2]

(* C6: Delete(n) with n > 0 at position p on a stream of size s returns
   k = min(n, s - p), makes the size s - k and leaves the position p; the
   count is smaller than n only when fewer than n bytes remained. *)
C6_DeleteCountSizePosition ==
    (call.op = "Delete" /\ call.numBytes > 0)
    => /\ result = ReturnInt(Min(call.numBytes, Remaining))
       /\ mSize = pre.size - result.value
       /\ mPosition = pre.pos
       /\ (result.value < call.numBytes => Remaining < call.numBytes)

\* A Delete that was clamped: it asked for more than remained and removed
\* what remained.
C6_Witness ==
    /\ call.op = "Delete"
    /\ call.numBytes > Remaining
    /\ Remaining > 0
    /\ result.value = Remaining
    /\ pre.pos > 0

(* C7: Delete(n) at position p removes exactly the bytes old[p..p+k), with
   k = min(n, size - p) (nothing when n <= 0): the new buffer is old[0..p)
   followed by old[p+k..size), every surviving byte keeping its value and
   relative order. *)
C7_DeleteRemovesRange ==
    call.op = "Delete"
    => LET k == IF call.numBytes <= 0 THEN 0
                ELSE Min(call.numBytes, Remaining)
       IN /\ Len(mBuffer) = Len(pre.buf) - k
          /\ \A i \in 1..pre.pos : mBuffer[i] = pre.buf[i]
          /\ \A i \in (pre.pos + 1)..Len(mBuffer) : mBuffer[i] = pre.buf[i + k]

\* A Delete from the middle that leaves bytes on both sides, the byte that
\* moved up differing from the one it replaced.
C7_Witness ==
    /\ call.op = "Delete"
    /\ result.value > 0
    /\ pre.pos > 0
    /\ mSize > mPosition
    /\ mBuffer[mPosition + 1] # pre.buf[pre.pos + 1]

(* C8: Seek(q) for any q with 0 <= q <= size, both bounds included,
   succeeds, leaves buffer content and size unchanged, and sets the cursor
   to q; Position() returns the cursor without moving it, so a Position()
   call after the Seek returns q. *)
C8_SeekInRange ==
    /\ (/\ call.op = "Seek"
        /\ 0 <= call.position
        /\ call.position <= pre.size)
       => /\ result = ReturnVoid
          /\ mPosition = call.position
          /\ mBuffer = pre.buf
          /\ mSize = pre.size
    /\ call.op = "Position" => (result = ReturnInt(mPosition) /\ Untouched)

\* A Seek to the upper bound itself, from elsewhere, on a non-empty stream.
C8_Witness ==
    /\ call.op = "Seek"
    /\ call.position = mSize
    /\ mSize > 0
    /\ pre.pos # call.position
    /\ Returned

(* C9: Seek(q) with q < 0 or q > current size fails, in every reachable
   state, with the error for a bad position argument ("must not be less
   than zero" / "must not be larger than size"); the bound is the size at
   the time of the call, so a position a Delete has just put beyond the
   size is rejected although it was in range before that Delete. *)
C9_SeekOutOfRange ==
    /\ []((call.op = "Seek" /\ (call.position < 0 \/ call.position > pre.size))
          => result = Throw(IF call.position < 0
                            THEN "Position must not be less than zero."
                            ELSE "Position must not be larger than size."))
    /\ [][(/\ call.op = "Delete"
           /\ call'.op = "Seek"
           /\ call'.position <= pre.size
           /\ call'.position > mSize)
          => result'.kind = "runtime_error"]_vars

\* Seek(size + 1) was rejected on a stream that holds content.
C9_Witness ==
    /\ call.op = "Seek"
    /\ call.position = pre.size + 1
    /\ pre.size > 0
    /\ Threw

(* C10: the size setter Size(value) fails with the "Not Implemented" error
   for every value and in every state, an error that differs from every
   error an out-of-range Seek raises, and it never changes buffer, size or
   position. *)
C10_SetSizeNotImplemented ==
    call.op = "SetSize"
    => /\ result = Throw("Not Implemented")
       /\ \A q \in SeekArgs : SeekOp(pre, q).res # result
       /\ Untouched

\* The setter was called with a value that would have been a legal size, on
\* a stream whose cursor is not at 0.
C10_Witness ==
    /\ call.op = "SetSize"
    /\ call.value >= 0
    /\ call.value # mSize
    /\ mPosition > 0
    /\ Threw

(* C11: Read(out, n) with n > 0 at position p returns k = min(n, size - p),
   delivers exactly the bytes buffer[p..p+k) in order and advances the
   position to p + k, changing neither buffer nor size; at p = size it
   returns 0 and moves nothing. *)
C11_ReadCopiesAndAdvances ==
    (call.op = "Read" /\ call.bufferLength > 0)
    => LET k == Min(call.bufferLength, Remaining)
       IN /\ result = ReturnInt(k)
          /\ Len(out) = k
          /\ \A i \in 1..k : out[i] = pre.buf[pre.pos + i]
          /\ mPosition = pre.pos + k
          /\ mBuffer = pre.buf
          /\ mSize = pre.size
          /\ (pre.pos = pre.size => (result = ReturnInt(0) /\ Untouched))

\* A clamped Read from the middle: more was asked for than the two bytes
\* that remained, and those two differ.
C11_Witness ==
    /\ call.op = "Read"
    /\ call.bufferLength > Remaining
    /\ Remaining = 2
    /\ pre.pos > 0
    /\ Len(out) = 2
    /\ out[1] # out[2]

(* C12: Write(B, n) gives the same results as Update(B, n, n) for all B and
   n: from the same fields, the same buffer content, size, position and
   return value or error. *)
C12_WriteIsUpdateSameLength ==
    call.op = "Write"
    => LET u == UpdateOp(pre, call.buffer, call.bufferLength, call.bufferLength)
       IN /\ State = Fields(u.buf, u.size, u.pos)
          /\ result = u.res

\* A Write in the middle that overwrote one byte with a different one and
\* left bytes behind it.
C12_Witness ==
    /\ call.op = "Write"
    /\ call.bufferLength = 1
    /\ Returned
    /\ pre.pos > 0
    /\ Remaining > 1
    /\ call.buffer[1] # pre.buf[pre.pos + 1]

\* The recorded sequence is Insert(B, n) with n > 0 at position p, then
\* Seek(p), then Read of length n, the Insert having succeeded.
RoundTripDone ==
    /\ Len(log) = 3
    /\ log[1].call.bufferLength > 0
    /\ log[1].result.kind = "int64_t"
    /\ log[2].call.position = log[1].pre.pos
    /\ log[3].call.bufferLength = log[1].call.bufferLength

(* C13: round trip.  From position p, Insert(B, n) with n > 0, then
   Seek(p), then Read of length n: the Read returns n, yields exactly the
   n bytes of B, and leaves the position at p + n. *)
C13_InsertSeekReadRoundTrip ==
    RoundTripDone
    => /\ log[2].result = ReturnVoid
       /\ log[3].result = ReturnInt(log[1].call.bufferLength)
       /\ log[3].out = log[1].call.buffer
       /\ mPosition = log[1].pre.pos + log[1].call.bufferLength

\* A round trip of two different bytes inserted in the middle, both unlike
\* the bytes that stood at the insertion point.
C13_Witness ==
    /\ RoundTripDone
    /\ log[1].call.bufferLength = 2
    /\ log[1].call.buffer[1] # log[1].call.buffer[2]
    /\ log[1].pre.pos > 0
    /\ log[1].pre.size - log[1].pre.pos >= 2
    /\ log[1].pre.buf[log[1].pre.pos + 1] # log[1].call.buffer[1]
    /\ log[1].pre.buf[log[1].pre.pos + 2] # log[1].call.buffer[2]

\* Number of bytes the delete step of Update(B, n, r) removes.
UpdateDeleted == Min(IF call.replaceLength > 0 THEN call.replaceLength ELSE 0,
                     Remaining)

\* What Update(B, n, r) with n > 0 leaves when it returns: old[0..p), B,
\* old[p+k..size); size - k + n bytes; the cursor at p + n.
UpdateEffect ==
    LET k == UpdateDeleted
        n == call.bufferLength
    IN /\ result = ReturnInt(n)
       /\ mPosition = pre.pos + n
       /\ mSize = pre.size - k + n
       /\ Len(mBuffer) = Len(pre.buf) - k + n
       /\ \A i \in 1..pre.pos : mBuffer[i] = pre.buf[i]
       /\ \A i \in 1..n : mBuffer[pre.pos + i] = call.buffer[i]
       /\ \A i \in (pre.pos + k + 1)..Len(pre.buf) :
              mBuffer[i - k + n] = pre.buf[i]

(* C14 as stated: Update(B, n, r) with n > 0 at position p returns n and
   leaves the cursor at p + n regardless of r, the buffer being
   old[0..p) ++ B ++ old[p+k..size), k = min(max(r, 0), size - p), and the
   size being size - k + n. *)
C14_Original ==
    (call.op = "Update" /\ call.bufferLength > 0) => UpdateEffect

(* C14 as amended: Update(B, n, r) with n > 0 at position p, when
   size - k + n does not exceed the largest int64_t, returns n and leaves
   the cursor at p + n regardless of r, the buffer being
   old[0..p) ++ B ++ old[p+k..size), k = min(max(r, 0), size - p), and the
   size being size - k + n; when size - k + n exceeds it, Update throws
   the overflow error instead of returning n. *)
C14_UpdateReplaces ==
    (call.op = "Update" /\ call.bufferLength > 0)
    => IF pre.size - UpdateDeleted + call.bufferLength <= MaxInt64
       THEN UpdateEffect
       ELSE result = Throw("Inserting buffer would exceed maximum stream length.")

\* Update replacing two bytes by one different byte, in the middle, with
\* content left behind the replaced bytes.
C14_Witness ==
    /\ call.op = "Update"
    /\ call.bufferLength = 1
    /\ call.replaceLength = 2
    /\ Returned
    /\ pre.pos > 0
    /\ Remaining > 2
    /\ call.buffer[1] # pre.buf[pre.pos + 1]

(* C15: calls with non-positive lengths are successful no-ops: Read, Write,
   Insert and Delete with length <= 0, and Update with both lengths <= 0,
   return 0, raise no error, and leave buffer, size and position
   unchanged. *)
C15_NonPositiveLengthNoOp ==
    (\/ (call.op \in {"Read", "Write", "Insert"} /\ call.bufferLength <= 0)
     \/ (call.op = "Delete" /\ call.numBytes <= 0)
     \/ (/\ call.op = "Update"
         /\ call.bufferLength <= 0
         /\ call.replaceLength <= 0))
    => /\ result = ReturnInt(0)
       /\ Untouched
       /\ out = <<>>

\* Read with a negative length in the middle of the content.
C15_Witness ==
    /\ call.op = "Read"
    /\ call.bufferLength < 0
    /\ pre.pos > 0
    /\ Remaining > 0

(* C16: Insert(B, n) with n > 0 fails with the overflow error exactly when
   size + n would exceed the largest int64_t (MaxInt64 here): it fails iff
   MaxInt64 - size < n, so it succeeds when size + n = MaxInt64; the
   difference the test computes stays within 0..MaxInt64; a failing Insert
   leaves buffer, size and position unchanged. *)
C16_InsertOverflow ==
    (call.op = "Insert" /\ call.bufferLength > 0)
    => /\ Threw <=> pre.size + call.bufferLength > MaxInt64
       /\ Threw <=> MaxInt64 - pre.size < call.bufferLength
       /\ MaxInt64 - pre.size \in 0..MaxInt64
       /\ Threw => /\ result = Throw("Inserting buffer would exceed maximum stream length.")
                   /\ Untouched
       /\ Returned => result = ReturnInt(call.bufferLength)

\* An Insert that failed by exactly one byte, on a stream that is not
\* full, with the cursor in the middle.
C16_Witness ==
    /\ call.op = "Insert"
    /\ Threw
    /\ pre.size + call.bufferLength = MaxInt64 + 1
    /\ pre.size < MaxInt64
    /\ pre.pos > 0
    /\ pre.pos < pre.size

(* C17: no call has a partial-failure mode: every call either completes or
   signals an error leaving buffer, size and position exactly as they were
   before the call; in particular an Update or Write whose insert step
   fails with the overflow error has not applied its delete step. *)
C17_NoPartialFailure == Threw => Untouched

(* C18: Flush() always reports success and CanRead() / CanWrite() always
   return true, in every reachable state, and none of the three changes
   buffer content, size or position. *)
C18_FlushCanReadCanWrite ==
    call.op \in {"Flush", "CanRead", "CanWrite"}
    => (result = ReturnBool(TRUE) /\ Untouched)

\* Flush on a stream that has grown beyond what it was constructed with,
\* the cursor inside the content.
C18_Witness ==
    /\ call.op = "Flush"
    /\ result.flag
    /\ mSize > MaxInitLen
    /\ mPosition > 0
    /\ mPosition < mSize

(* C19: a freshly constructed stream has position 0, size equal to the
   length of the supplied byte sequence, and content equal to that sequence
   byte for byte (an empty sequence gives size 0, position 0). *)
C19_FreshStream ==
    call.op = "EditableStreamOverBuffer"
    => /\ mPosition = 0
       /\ mSize = Len(call.memory)
       /\ Len(mBuffer) = Len(call.memory)
       /\ \A i \in 1..Len(call.memory) : mBuffer[i] = call.memory[i]

\* A stream constructed from two different bytes.
C19_Witness ==
    /\ call.op = "EditableStreamOverBuffer"
    /\ Len(call.memory) = 2
    /\ call.memory[1] # call.memory[2]

\* What Write(B, n) with n > 0 leaves when it returns: n returned, the
\* cursor at p + n, bytes [p..p+n) equal to B, everything before p kept;
\* if n <= size - p the size and the bytes from p + n on are kept, else
\* the size is p + n.
WriteEffect ==
    LET n == call.bufferLength
    IN /\ result = ReturnInt(n)
       /\ mPosition = pre.pos + n
       /\ \A i \in 1..pre.pos : mBuffer[i] = pre.buf[i]
       /\ \A i \in 1..n : mBuffer[pre.pos + i] = call.buffer[i]
       /\ Len(mBuffer) = mSize
       /\ IF n <= Remaining
          THEN /\ mSize = pre.size
               /\ \A i \in (pre.pos + n + 1)..pre.size : mBuffer[i] = pre.buf[i]
          ELSE mSize = pre.pos + n

(* C20 as stated: Write(B, n) with n > 0 at position p on a stream of size
   s always returns n and moves the position to p + n; if n <= s - p the
   size stays s and only bytes [p..p+n) change, to B; if n > s - p the tail
   from p is replaced and the size becomes p + n (at p = s the write
   appends). *)
C20_Original ==
    (call.op = "Write" /\ call.bufferLength > 0) => WriteEffect

(* C20 as amended: Write(B, n) with n > 0 at position p on a stream of size
   s, when p + n does not exceed the largest int64_t, returns n and moves
   the position to p + n; if n <= s - p the size stays s and only bytes
   [p..p+n) change, to B; if n > s - p the tail from p is replaced and the
   size becomes p + n (at p = s the write appends).  When p + n exceeds
   the largest int64_t, Write throws the overflow error instead of
   returning n. *)
C20_WriteOverwritesAndGrows ==
    (call.op = "Write" /\ call.bufferLength > 0)
    => IF pre.pos + call.bufferLength <= MaxInt64
       THEN WriteEffect
       ELSE result = Throw("Inserting buffer would exceed maximum stream length.")

\* A Write that starts inside the content and runs past its end: the tail
\* is replaced and the stream grows.
C20_Witness ==
    /\ call.op = "Write"
    /\ Returned
    /\ call.bufferLength = 2
    /\ Remaining = 1
    /\ pre.pos > 0
    /\ mSize = pre.size + 1

(* C21: Update returns the number of bytes inserted, bufferLength on
   success, whatever was deleted: Update(B, n, r) with n <= 0 and r > 0
   returns 0 although it has removed min(r, size - position) bytes and
   reduced the size, so 0 from Update does not mean the stream is
   unchanged. *)
C21_UpdateReturnsInserted ==
    (call.op = "Update" /\ Returned)
    => /\ result = ReturnInt(IF call.bufferLength > 0 THEN call.bufferLength ELSE 0)
       /\ (call.bufferLength <= 0 /\ call.replaceLength > 0)
          => /\ result = ReturnInt(0)
             /\ mSize = pre.size - Min(call.replaceLength, Remaining)
             /\ mPosition = pre.pos
             /\ mBuffer = SubSeq(pre.buf, 1, pre.pos)
                            \o SubSeq(pre.buf, pre.pos + UpdateDeleted + 1,
                                      Len(pre.buf))

\* Update with nothing to insert returned 0 and removed two bytes.
C21_Witness ==
    /\ call.op = "Update"
    /\ call.bufferLength <= 0
    /\ call.replaceLength > 0
    /\ result = ReturnInt(0)
    /\ mSize = pre.size - 2
    /\ mBuffer # pre.buf

(* C22: Read, Seek, Position(), the Size() getter, Flush, CanRead and
   CanWrite never modify the buffer content or the size; only Insert,
   Delete, Update and Write can change them, and only Read, Seek, Insert,
   Update and Write can change the position. *)
C22_WhoChangesWhat ==
    /\ (mBuffer # pre.buf \/ mSize # pre.size)
       => call.op \in {"Insert", "Delete", "Update", "Write"}
    /\ mPosition # pre.pos
       => call.op \in {"Read", "Seek", "Insert", "Update", "Write"}

\* A Read that moved the cursor over content and left buffer and size alone.
C22_Witness ==
    /\ call.op = "Read"
    /\ mPosition > pre.pos
    /\ pre.pos > 0
    /\ mBuffer = pre.buf
    /\ mSize = pre.size
    /\ mSize > mPosition

(* C23: a failed Seek (q < 0 or q > size) leaves the cursor where it was:
   after the error the position, the size and the buffer content are
   exactly those before the call, and the stream is still in a state its
   other calls accept (0 <= position <= size = length of the buffer). *)
C23_FailedSeekChangesNothing ==
    (call.op = "Seek" /\ (call.position < 0 \/ call.position > pre.size))
    => /\ Threw
       /\ mPosition = pre.pos
       /\ mSize = pre.size
       /\ mBuffer = pre.buf
       /\ 0 <= mPosition
       /\ mPosition <= mSize
       /\ mSize = Len(mBuffer)

\* A Seek beyond the size failed with the cursor inside the content.
C23_Witness ==
    /\ call.op = "Seek"
    /\ call.position > pre.size
    /\ Threw
    /\ pre.pos > 0
    /\ pre.pos < pre.size

(* C24: reading or deleting past the end never raises an error: Read and
   Delete asking for more than size - position bytes complete with a
   clamped count; the only errors any call sequence reaches are those of an
   out-of-range Seek, of the Size setter, and the overflow error of
   Insert / Update / Write. *)
C24_OnlyThreeErrors ==
    /\ call.op \in {"Read", "Delete"}
       => /\ Returned
          /\ (call.op = "Read" /\ call.bufferLength > Remaining)
             => result = ReturnInt(Remaining)
          /\ (call.op = "Delete" /\ call.numBytes > Remaining)
             => result = ReturnInt(Remaining)
    /\ Threw
       => \/ /\ call.op = "Seek"
             /\ (call.position < 0 \/ call.position > pre.size)
             /\ result.what \in {"Position must not be less than zero.",
                                 "Position must not be larger than size."}
          \/ /\ call.op = "SetSize"
             /\ result.what = "Not Implemented"
          \/ /\ call.op \in {"Insert", "Update", "Write"}
             /\ call.bufferLength > 0
             /\ result.what = "Inserting buffer would exceed maximum stream length."

\* A Delete asking for the largest int64_t was clamped to the three bytes
\* that remained.
C24_Witness ==
    /\ call.op = "Delete"
    /\ call.numBytes = MaxInt64
    /\ Remaining = 3
    /\ result = ReturnInt(3)

(* C29 as stated: the supplied byte sequence is moved in, not copied:
   after construction the stream holds the only copy of the content and the
   caller's source sequence no longer holds it. *)
C29_MovedIn ==
    (call.op = "EditableStreamOverBuffer" /\ Len(call.memory) > 0)
    => /\ mBuffer = call.memory
       /\ call.source # call.memory

(* C25: size accounting. Over any sequence of successful calls the size
   is the initial size, plus the counts returned by Insert / Update / Write,
   minus the bytes removed by Delete and by the delete step of Update /
   Write; and the size is never negative. *)
C25_SizeAccounting ==
    /\ mSize >= 0
    /\ ~tally.failed
       => mSize = tally.initial + tally.inserted - tally.removed

\* An Update that both removed and inserted bytes, after earlier insertions
\* and removals, with no call having failed.
C25_Witness ==
    /\ ~tally.failed
    /\ call.op = "Update"
    /\ result.value > 0
    /\ mSize # pre.size
    /\ tally.inserted > result.value
    /\ tally.removed > pre.size - mSize + result.value
    /\ tally.initial > 0

\* The recorded sequence was Insert(B, n) with n > 0 that succeeded at a
\* position p, Seek(p), Delete(n).
InverseDone ==
    /\ Len(log) = 3
    /\ log[3].call.op = "Delete"
    /\ log[1].call.bufferLength > 0
    /\ log[1].result.kind = "int64_t"
    /\ log[2].call.position = log[1].pre.pos
    /\ log[3].call.numBytes = log[1].call.bufferLength

(* C26: Delete at the insertion point is the inverse of Insert. From
   position p, Insert(B, n) with n > 0 that succeeds, then Seek(p), then
   Delete(n): the Delete returns n, and the buffer content, the size and
   the position are those before the Insert, the position being p. *)
C26_DeleteUndoesInsert ==
    InverseDone
    => /\ log[3].result = ReturnInt(log[1].call.bufferLength)
       /\ log[2].result = ReturnVoid
       /\ State = log[1].pre
       /\ mPosition = log[2].call.position

\* Two bytes were inserted between existing bytes that differ from them,
\* and deleted again.
C26_Witness ==
    /\ InverseDone
    /\ log[1].call.bufferLength = 2
    /\ log[1].pre.pos > 0
    /\ log[1].pre.pos < log[1].pre.size
    /\ log[1].call.buffer[1] # log[1].pre.buf[log[1].pre.pos + 1]
    /\ log[3].pre.buf # mBuffer

\* The bytes the recorded calls from the i-th on copied out, in order.
RECURSIVE BytesReturned(_)
BytesReturned(i) ==
    IF i > Len(log) THEN <<>> ELSE log[i].out \o BytesReturned(i + 1)

\* The sum of the counts the recorded calls from the i-th on returned.
RECURSIVE CountsReturned(_)
CountsReturned(i) ==
    IF i > Len(log) THEN 0 ELSE log[i].result.value + CountsReturned(i + 1)

\* The recorded calls are Seek(0) and Reads; Deletes.
ReadDrain == Len(log) > 0 /\ log[1].call.op = "Seek"
DeleteDrain == Len(log) > 0 /\ log[1].call.op = "Delete"

\* The last recorded Read or Delete returned 0.
Drained == Len(log) > 0 /\ ~MoreToDrain

\* Every recorded call of a drain returned a count, and each but the last
\* returned at least 1, so at most size (size - position) calls precede the
\* one that returns 0; and what the drain has done when 0 is returned.
DrainSafe ==
    /\ Len(log) > 0 => Returned
    /\ ReadDrain
       => /\ Len(log) <= mSize + 2
          /\ mBuffer = log[1].pre.buf
          /\ Drained
             => /\ BytesReturned(2) = mBuffer
                /\ CountsReturned(2) = mSize
                /\ mPosition = mSize
    /\ DeleteDrain
       => /\ Len(log) <= (log[1].pre.size - log[1].pre.pos) + 1
          /\ mPosition = log[1].pre.pos
          /\ Drained
             => /\ mSize = mPosition
                /\ CountsReturned(1) = log[1].pre.size - log[1].pre.pos
                /\ mBuffer = SubSeq(log[1].pre.buf, 1, mPosition)

(* C27: draining terminates. After Seek(0), with no edits in between,
   Read called again and again with any positive lengths eventually returns
   0; the bytes returned before that, concatenated, are the whole buffer in
   order, the counts returned sum to the size, and the position ends at the
   size. Likewise Delete called again and again with positive counts at a
   fixed position eventually returns 0, with size = position. *)
C27_DrainTerminates ==
    /\ []DrainSafe
    /\ (Len(log) > 0) ~> Drained

\* A buffer of four bytes was read out in three Reads before the Read that
\* returned 0.
C27_Witness ==
    /\ ReadDrain
    /\ Drained
    /\ Len(log) = 5
    /\ mSize = 4
    /\ log[2].result.value < log[2].call.bufferLength
         \/ log[4].result.value < log[4].call.bufferLength
    /\ mBuffer[1] # mBuffer[2]

\* No thread is inside a call.
Quiescent == \A u \in Threads : ~MidCall(u)

(* C28: the stream has no internal locking. Its invariants, position <=
   size, size = buffer length, and Read never copying from beyond the end
   of the buffer, are guaranteed only when calls execute one at a time: as
   long as no call has overlapped another they hold between calls, while
   with the steps of two calls interleaved (Read computing its count and
   Delete shrinking the buffer before the copy, or Seek passing its bound
   check before a Delete) a state violating them is reached. *)
C28_SafeWhenOneAtATime ==
    ~race.overlapped
    => /\ ~race.beyond
       /\ Quiescent
          => /\ 0 <= mPosition
             /\ mPosition <= mSize
             /\ mSize = Len(mBuffer)

\* Read computed its count, Delete then emptied the buffer, and Read went
\* on: it copied from beyond the end and left position 2 with size 0.
C28_Witness ==
    /\ race.overlapped
    /\ race.beyond
    /\ \A u \in Threads : thread[u].pc = "returned"
    /\ mPosition = 2
    /\ mSize = 0
    /\ mBuffer = <<>>

=============================================================================
